---- MODULE Spec2Model ----
(***************************************************************************)
(* The real-time relay of backend/main.py: websocket_endpoint, one         *)
(* coroutine per connection on a single event loop, the process-wide       *)
(* active_connections dict, and the Conversation / Message tables of       *)
(* backend/models.py.  A step of the model is the code a coroutine runs    *)
(* between two awaits.                                                     *)
(***************************************************************************)
EXTENDS Integers, Sequences, FiniteSets, TLC

\* ---------------------------------------------------------------- bounds
MaxSessions == 2
NumUsers == 2
MaxMsgs == 2
MaxConvs == 2
MaxClock == 1

\* ------------------------------------------------------------- constants
\* Python's None, for an absent id, handle or conversation_id.
None == 0
\* websocket.close(code=1008)
PolicyViolation == 1008
\* an absent "content" (obj.get("content") is None)
NoContent == "<none>"

Sessions == 1..MaxSessions
Users == 1..NumUsers
Contents == {"hi"}

\* What decode_access_token(token) returns: None for a token it rejects, a
\* payload carrying "sub" for a token issued by /login, or a payload that
\* decodes but carries no "sub".
Payloads ==
    {[kind |-> "none", sub |-> None], [kind |-> "nosub", sub |-> None]}
        \cup {[kind |-> "payload", sub |-> u] : u \in Users}

decode_access_token(token) == token

\* The inbound frames: json.loads(raw) with .get("to"), .get("content"),
\* .get("conversation_id"); an absent key reads as None.  A client may put
\* any other key in the object, such as a "sender_id" of its choosing; the
\* handler reads none of them.
Frames ==
    [to : Users \cup {None},
     content : Contents \cup {NoContent},
     conversation_id : (1..MaxConvs) \cup {None},
     sender_id : Users \cup {None}]

\* receiver_id, content, conv_id: what lines 156-158 read of the frame
Fields(f) ==
    [to |-> f.to, content |-> f.content, conversation_id |-> f.conversation_id]

\* The exception a send on a closed connection raises is the server
\* library's choice: WebSocketDisconnect or another error.
SendFailures == {"disconnect", "error"}

ActivePcs == {"receiving", "forwarding", "echoing"}

\* The frame a session is handling: the inbound frame, what the handler has
\* done for it so far (stage), the id of the conversation it created and of
\* the message it stored (None: none), the handle the lookup gave, and the
\* handle registered last for the recipient when the lookup ran (expect),
\* whether the recipient had no key in the registry then (offline), and
\* whether the recipient had then logged in twice, its later connection
\* being open and in its loop (dup), and whether the frame named a
\* conversation that was in the store (known).
NoPayload ==
    [conversation_id |-> None, sender_id |-> None, content |-> NoContent,
     timestamp |-> <<"datetime", 0>>]

NoFrame ==
    [stage |-> "none",
     frame |-> [to |-> None, content |-> NoContent, conversation_id |-> None],
     created |-> None, mid |-> None, payload |-> NoPayload,
     target |-> None, expect |-> None, offline |-> FALSE, dup |-> FALSE,
     known |-> FALSE, forwarded |-> FALSE, echoed |-> FALSE]

VARIABLES
    pc,            \* position of each connection's coroutine
    user_id,       \* user_id bound at line 146 (None before)
    open,          \* the connection's transport is open, as the server sees it
    closeCode,     \* code the handler closed the connection with (None: none)
    token,         \* what decode_access_token returned for the connection
    active_connections,  \* user id -> handle (None: no key)
    convs,         \* Conversation table, id = position
    messages,      \* Message table, id = position
    now,           \* datetime.utcnow()
    wire,          \* per handle, the frames send_text was called with
    cur,           \* the frame a session is handling / handled last
    nrecv,         \* frames a session has received so far
    lastReg,       \* history: the handle registered last for each user
    tornDown       \* history: the session ran lines 197-199

vars == <<pc, user_id, open, closeCode, token, active_connections, convs,
          messages, now, wire, cur, nrecv, lastReg, tornDown>>

\* ------------------------------------------------------------ operations

\* A registration that keeps the handle already registered for the id
\* (setdefault instead of assignment).
RegisterKeepFirst(reg, id, handle) ==
    IF reg[id] = None THEN [reg EXCEPT ![id] = handle] ELSE reg

\* active_connections[user_id] = websocket
Register(reg, id, handle) == [reg EXCEPT ![id] = handle]

\* if user_id in active_connections: del active_connections[user_id]
\* (the handle of the session that leaves plays no part)
Unregister(reg, id, handle) ==
    IF reg[id] # None THEN [reg EXCEPT ![id] = None] ELSE reg

\* active_connections.get(receiver_id)
Lookup(reg, id) == IF id \in DOMAIN reg THEN reg[id] ELSE None

\* str(msg.timestamp)
Str(t) == <<"datetime", t>>

\* Conversation(user_a=user_id, user_b=receiver_id)
NewConversation(uid, receiver_id) == [user_a |-> uid, user_b |-> receiver_id]

\* NOT NULL columns of Conversation (user_a: int, user_b: int)
ConversationOk(c) == c.user_a # None /\ c.user_b # None

\* Message(conversation_id=conv_id, sender_id=user_id, content=content),
\* timestamp from default_factory=datetime.utcnow
NewMessage(conv_id, uid, content, t, s, n) ==
    [conversation_id |-> conv_id, sender_id |-> uid, content |-> content,
     timestamp |-> t, sess |-> s, seq |-> n]

\* NOT NULL columns of Message (conversation_id: int, sender_id: int, content: str)
MessageOk(m) ==
    m.conversation_id # None /\ m.sender_id # None /\ m.content # NoContent

\* A commit that stores nothing (session.commit() left out).
CommitNothing(table, row) == table

\* A commit that inserts the row twice (session.add called again on a new
\* copy of the object).
CommitTwice(table, row) == Append(Append(table, row), row)

\* session.add(x); session.commit(); session.refresh(x)
Commit(table, row) == Append(table, row)

\* The sender is what the frame says it is, when it says so.
SenderFromFrame(uid, f) == IF f.sender_id # None THEN f.sender_id ELSE uid

\* sender_id=user_id (line 173), "sender_id": user_id (line 183)
SenderOf(uid, f) == uid

\* payload_out
PayloadOut(conv_id, uid, content, msg) ==
    [conversation_id |-> conv_id, sender_id |-> uid, content |-> content,
     timestamp |-> Str(msg.timestamp)]

\* A send that puts the frame ahead of the frames already sent on h.
SendTextFirst(w, h, payload, mid) ==
    [w EXCEPT ![h] = <<[payload |-> payload, mid |-> mid]>> \o @]

\* ws.send_text(json.dumps(payload_out)): the frame goes out on handle h
SendText(w, h, payload, mid) ==
    [w EXCEPT ![h] = Append(@, [payload |-> payload, mid |-> mid])]

\* The echo goes to the handle the registry holds for the sender's id, when
\* there is one.
OwnHandleByRegistry(s) ==
    IF active_connections[user_id[s]] # None
    THEN active_connections[user_id[s]] ELSE s

\* websocket, the parameter of the handler: the connection's own handle
OwnHandle(s) == s

\* The sends run although the commit raised (lines 180-194 moved into a
\* finally clause).
SendAfterStoreFailure(w, s, payload) == SendText(w, s, payload, None)

\* A commit that raises leaves the with block and the loop: lines 180-194 do
\* not run for the frame, nothing is sent.
AfterStoreFailure(w, s, payload) == w

Init ==
    /\ pc = [s \in Sessions |-> "new"]
    /\ user_id = [s \in Sessions |-> None]
    /\ open = [s \in Sessions |-> FALSE]
    /\ closeCode = [s \in Sessions |-> None]
    /\ token = [s \in Sessions |-> [kind |-> "none", sub |-> None]]
    /\ active_connections = [u \in Users |-> None]
    /\ convs = <<>>
    /\ messages = <<>>
    /\ now = 0
    /\ wire = [s \in Sessions |-> <<>>]
    /\ cur = [s \in Sessions |-> NoFrame]
    /\ nrecv = [s \in Sessions |-> 0]
    /\ lastReg = [u \in Users |-> None]
    /\ tornDown = [s \in Sessions |-> FALSE]

\* The handler leaves through an exception raised in the loop: the except
\* clause of lines 196-199 runs for WebSocketDisconnect only; any other
\* exception leaves the coroutine with the registry untouched.  The server
\* closes the connection of a handler that has returned or raised.
Raise(s, kind) ==
    /\ pc' = [pc EXCEPT ![s] = IF kind = "disconnect" THEN "closed" ELSE "crashed"]
    /\ active_connections' =
          IF kind = "disconnect"
          THEN Unregister(active_connections, user_id[s], s)
          ELSE active_connections
    /\ tornDown' = [tornDown EXCEPT ![s] = (kind = "disconnect")]
    /\ open' = [open EXCEPT ![s] = FALSE]

\* Lines 139-149: accept, decode the token, close with 1008 or register.
\* Connections are numbered in the order the server accepts them.
Connect(s, tok) ==
    /\ pc[s] = "new"
    /\ \A t \in Sessions : t < s => pc[t] # "new"
    /\ LET payload == decode_access_token(tok) IN
        /\ token' = [token EXCEPT ![s] = payload]
        /\ IF payload.kind = "none"
           THEN \* if not payload: await websocket.close(code=1008); return
                /\ pc' = [pc EXCEPT ![s] = "closed"]
                /\ closeCode' = [closeCode EXCEPT ![s] = PolicyViolation]
                /\ UNCHANGED <<user_id, open, active_connections, lastReg>>
           ELSE IF payload.sub = None
           THEN \* int(payload.get("sub")) raises TypeError
                /\ pc' = [pc EXCEPT ![s] = "crashed"]
                /\ UNCHANGED <<closeCode, user_id, open, active_connections, lastReg>>
           ELSE /\ user_id' = [user_id EXCEPT ![s] = payload.sub]
                /\ active_connections' = Register(active_connections, payload.sub, s)
                /\ lastReg' = [lastReg EXCEPT ![payload.sub] = s]
                /\ open' = [open EXCEPT ![s] = TRUE]
                /\ pc' = [pc EXCEPT ![s] = "receiving"]
                /\ UNCHANGED closeCode
    /\ UNCHANGED <<convs, messages, now, wire, cur, nrecv, tornDown>>

\* History: user u authenticated on two connections, and the later one is
\* open and in its loop.
DuplicateLogin(u) ==
    /\ u \in Users
    /\ lastReg[u] # None
    /\ pc[lastReg[u]] \in ActivePcs
    /\ open[lastReg[u]]
    /\ \E c1 \in Sessions \ {lastReg[u]} : user_id[c1] = u

\* Lines 153-194 up to the first await that suspends: receive_text returns a
\* frame, the handler stores the conversation and the message, builds
\* payload_out, looks the receiver up and calls send_text on the receiver's
\* handle, or, with no receiver registered, on its own.
ReceiveFrame(s, f) ==
    /\ pc[s] = "receiving"
    /\ open[s]
    /\ Len(messages) < MaxMsgs
    /\ f.conversation_id = None => Len(convs) < MaxConvs
    /\ LET uid == user_id[s]
           receiver_id == f.to
           content == f.content
           needConv == f.conversation_id = None
           conv == NewConversation(uid, receiver_id)
           convFail == needConv /\ ~ConversationOk(conv)
           convs1 == IF needConv /\ ~convFail THEN Commit(convs, conv) ELSE convs
           conv_id == IF needConv THEN Len(convs1) ELSE f.conversation_id
           msg == NewMessage(conv_id, SenderOf(uid, f), content, now, s,
                             nrecv[s] + 1)
           msgFail == ~MessageOk(msg)
           messages1 == Commit(messages, msg)
           payload_out == PayloadOut(conv_id, SenderOf(uid, f), content, msg)
           ws == Lookup(active_connections, receiver_id)
           started == [NoFrame EXCEPT !.frame = Fields(f)]
           stored == [started EXCEPT
                         !.created = IF needConv THEN conv_id ELSE None,
                         !.mid = Len(messages1),
                         !.payload = payload_out,
                         !.target = ws,
                         !.expect = Lookup(lastReg, receiver_id),
                         !.offline = (receiver_id \in Users
                                        /\ active_connections[receiver_id] = None),
                         !.dup = DuplicateLogin(receiver_id),
                         !.known = f.conversation_id \in 1..Len(convs)]
       IN
       /\ nrecv' = [nrecv EXCEPT ![s] = @ + 1]
       /\ IF convFail
          THEN \* IntegrityError at the first commit
               /\ cur' = [cur EXCEPT ![s] = [started EXCEPT !.stage = "failed"]]
               /\ Raise(s, "error")
               /\ wire' = AfterStoreFailure(wire, s, payload_out)
               /\ UNCHANGED <<convs, messages>>
          ELSE IF msgFail
          THEN \* IntegrityError at the second commit; the first one stays
               /\ cur' = [cur EXCEPT ![s] =
                             [started EXCEPT
                                 !.stage = "failed",
                                 !.created = IF needConv THEN conv_id ELSE None]]
               /\ convs' = convs1
               /\ Raise(s, "error")
               /\ wire' = AfterStoreFailure(wire, s, payload_out)
               /\ UNCHANGED messages
          ELSE /\ convs' = convs1
               /\ messages' = messages1
               /\ IF ws # None
                  THEN IF open[ws]
                       THEN /\ wire' = SendText(wire, ws, payload_out, Len(messages1))
                            /\ cur' = [cur EXCEPT ![s] =
                                          [stored EXCEPT !.stage = "forwarding",
                                                         !.forwarded = TRUE]]
                            /\ pc' = [pc EXCEPT ![s] = "forwarding"]
                            /\ UNCHANGED <<active_connections, tornDown, open>>
                       ELSE /\ \E kind \in SendFailures : Raise(s, kind)
                            /\ cur' = [cur EXCEPT ![s] = [stored EXCEPT !.stage = "failed"]]
                            /\ UNCHANGED wire
                  ELSE /\ wire' = SendText(wire, OwnHandle(s), payload_out, Len(messages1))
                       /\ cur' = [cur EXCEPT ![s] =
                                     [stored EXCEPT !.stage = "echoing", !.echoed = TRUE]]
                       /\ pc' = [pc EXCEPT ![s] = "echoing"]
                       /\ UNCHANGED <<active_connections, tornDown, open>>
    /\ UNCHANGED <<user_id, closeCode, token, now, lastReg>>

\* Line 191 returns; line 194 calls send_text on the session's own handle.
ForwardDone(s) ==
    /\ pc[s] = "forwarding"
    /\ IF open[s]
       THEN /\ wire' = SendText(wire, OwnHandle(s), cur[s].payload, cur[s].mid)
            /\ cur' = [cur EXCEPT ![s].stage = "echoing", ![s].echoed = TRUE]
            /\ pc' = [pc EXCEPT ![s] = "echoing"]
            /\ UNCHANGED <<active_connections, tornDown, open>>
       ELSE /\ \E kind \in SendFailures : Raise(s, kind)
            /\ cur' = [cur EXCEPT ![s].stage = "failed"]
            /\ UNCHANGED wire
    /\ UNCHANGED <<user_id, closeCode, token, convs, messages, now, nrecv, lastReg>>

\* Line 194 returns; the loop is back at receive_text.
EchoDone(s) ==
    /\ pc[s] = "echoing"
    /\ pc' = [pc EXCEPT ![s] = "receiving"]
    /\ cur' = [cur EXCEPT ![s].stage = "done"]
    /\ UNCHANGED <<user_id, open, closeCode, token, active_connections, convs,
                   messages, now, wire, nrecv, lastReg, tornDown>>

\* receive_text raises WebSocketDisconnect: lines 196-199.
Disconnect(s) ==
    /\ pc[s] = "receiving"
    /\ ~open[s]
    /\ Raise(s, "disconnect")
    /\ UNCHANGED <<user_id, closeCode, token, convs, messages, now, wire, cur,
                   nrecv, lastReg>>

\* The client goes away, or the transport breaks.
ClientClose(s) ==
    /\ pc[s] \in ActivePcs
    /\ open[s]
    /\ open' = [open EXCEPT ![s] = FALSE]
    /\ UNCHANGED <<pc, user_id, closeCode, token, active_connections, convs,
                   messages, now, wire, cur, nrecv, lastReg, tornDown>>

\* The clock datetime.utcnow reads moves on.
Tick ==
    /\ now < MaxClock
    /\ now' = now + 1
    /\ UNCHANGED <<pc, user_id, open, closeCode, token, active_connections,
                   convs, messages, wire, cur, nrecv, lastReg, tornDown>>

Next ==
    \/ \E s \in Sessions, tok \in Payloads : Connect(s, tok)
    \/ \E s \in Sessions, f \in Frames : ReceiveFrame(s, f)
    \/ \E s \in Sessions : ForwardDone(s)
    \/ \E s \in Sessions : EchoDone(s)
    \/ \E s \in Sessions : Disconnect(s)
    \/ \E s \in Sessions : ClientClose(s)
    \/ Tick

Spec == Init /\ [][Next]_vars

\* ------------------------------------------------------------ properties

\* An inbound frame with both required fields.
WellFormed(f) == f.to # None /\ f.content # NoContent

\* The frame of message mid went out on handle h with this payload.
OnWire(h, payload, mid) ==
    \E i \in 1..Len(wire[h]) : wire[h][i] = [payload |-> payload, mid |-> mid]

\* C1 (as claimed): guarded unregister.  When s1 and s2 registered for the
\* same identity, s2 last, and s1 has run its teardown while s2 is still in
\* its loop, the registry maps the identity to s2.
GuardedUnregister ==
    \A s1, s2 \in Sessions :
        (/\ s1 # s2
         /\ user_id[s2] # None
         /\ user_id[s1] = user_id[s2]
         /\ lastReg[user_id[s2]] = s2
         /\ tornDown[s1]
         /\ pc[s2] \in ActivePcs)
        => active_connections[user_id[s2]] = s2

\* C2 (as claimed): an identity is a key of the registry iff a session
\* authenticated as it is in its Active loop.
RegistryIffActive ==
    \A u \in Users :
        (active_connections[u] # None)
            <=> (\E s \in Sessions : user_id[s] = u /\ pc[s] \in ActivePcs)

\* C3: no stale reads.  The lookup made while relaying a frame yields the
\* handle registered last for the recipient, or none.
NoStaleReads ==
    \A s \in Sessions :
        cur[s].mid # None => cur[s].target \in {None, cur[s].expect}

\* C3 witness: a lookup ran for a recipient who had registered on two
\* connections, and it gave a handle.
NoStaleReadsWitness ==
    \E s \in Sessions :
        /\ cur[s].mid # None
        /\ cur[s].target # None
        /\ \E c1 \in Sessions \ {cur[s].target} : user_id[c1] = cur[s].frame.to

\* C4 (as claimed): duplicate login.  A frame addressed to an identity that
\* logged in on c1 and then on c2 (c2 open and in its loop) is forwarded on
\* c2, the handle registered last, and on no other.
DuplicateLoginDelivery ==
    \A s \in Sessions :
        cur[s].dup => (cur[s].target = cur[s].expect /\ cur[s].forwarded)

\* C5 (as claimed): online delivery.  For a well-formed frame whose
\* recipient was registered, the same outbound frame (the conversation id of
\* the stored message, the sender's id, the content, the stored message's
\* timestamp) is sent on the recipient's registered handle and, once the
\* forward has returned, on the sender's own handle.
OnlineDelivery ==
    \A s \in Sessions :
        LET c == cur[s] IN
        (WellFormed(c.frame) /\ c.mid # None /\ c.target # None) =>
            /\ c.mid \in 1..Len(messages)
            /\ c.payload =
                 [conversation_id |-> messages[c.mid].conversation_id,
                  sender_id |-> user_id[s],
                  content |-> c.frame.content,
                  timestamp |-> Str(messages[c.mid].timestamp)]
            /\ c.forwarded
            /\ OnWire(c.target, c.payload, c.mid)
            /\ c.stage \in {"echoing", "done"} => OnWire(s, c.payload, c.mid)

\* C6: offline recipient.  For a well-formed frame to another user who had
\* no key in the registry, the message is stored, no frame of it is sent on
\* any handle of the recipient, and the sender's handle gets the echo.
OfflineRecipient ==
    \A s \in Sessions :
        LET c == cur[s] IN
        (/\ c.stage # "none"
         /\ WellFormed(c.frame)
         /\ c.frame.to # user_id[s]
         /\ c.offline) =>
            /\ c.mid \in 1..Len(messages)
            /\ messages[c.mid].sender_id = user_id[s]
            /\ messages[c.mid].content = c.frame.content
            /\ ~c.forwarded
            /\ c.stage \in {"echoing", "done"}
            /\ OnWire(s, c.payload, c.mid)
            /\ \A h \in Sessions :
                  user_id[h] = c.frame.to =>
                      \A i \in 1..Len(wire[h]) : wire[h][i].mid # c.mid

\* C6 witness: such a frame has been handled while a connection of the
\* recipient exists that is not in the registry.
OfflineRecipientWitness ==
    \E s \in Sessions :
        /\ WellFormed(cur[s].frame)
        /\ cur[s].frame.to # user_id[s]
        /\ cur[s].offline
        /\ cur[s].stage = "done"
        /\ \E h \in Sessions : user_id[h] = cur[s].frame.to

\* C7 (as claimed): authentication failure.  A connection whose token is
\* rejected, or decodes to a payload without a subject, is closed with
\* status 1008, never enters the loop, is not registered and stores
\* nothing.
AuthFailureClosed ==
    \A s \in Sessions :
        (pc[s] # "new" /\ token[s].kind \in {"none", "nosub"}) =>
            /\ closeCode[s] = PolicyViolation
            /\ pc[s] = "closed"
            /\ user_id[s] = None
            /\ \A u \in Users : active_connections[u] # s
            /\ nrecv[s] = 0
            /\ \A i \in 1..Len(messages) : messages[i].sess # s

\* C8 (as claimed): malformed frame.  A frame without "to" or without
\* content is dropped: nothing is stored for it, nothing is sent for it,
\* and handling it does not end the session.
MalformedFrameDropped ==
    \A s \in Sessions :
        (cur[s].stage # "none" /\ ~WellFormed(cur[s].frame)) =>
            /\ cur[s].mid = None
            /\ cur[s].created = None
            /\ ~cur[s].forwarded
            /\ ~cur[s].echoed
            /\ cur[s].stage # "failed"

\* C9 (as claimed): no duplicate conversations.  The store holds at most
\* one conversation for an unordered pair of users.
NoDuplicateConversations ==
    \A i, j \in 1..Len(convs) :
        i # j => {convs[i].user_a, convs[i].user_b}
                    # {convs[j].user_a, convs[j].user_b}

\* C10: per-sender ordering.  Messages received on one connection are
\* stored in the order received, and on every handle their outbound frames
\* are sent in that order.
PerSenderOrdering ==
    /\ \A i, j \in 1..Len(messages) :
          (i < j /\ messages[i].sess = messages[j].sess)
              => messages[i].seq < messages[j].seq
    /\ \A h \in Sessions : \A i, j \in 1..Len(wire[h]) :
          (/\ i < j
           /\ wire[h][i].mid \in 1..Len(messages)
           /\ wire[h][j].mid \in 1..Len(messages)
           /\ messages[wire[h][i].mid].sess = messages[wire[h][j].mid].sess)
              => messages[wire[h][i].mid].seq <= messages[wire[h][j].mid].seq

\* C10 witness: two frames received on one connection have both been sent
\* on the recipient's handle and on the sender's own.
PerSenderOrderingWitness ==
    \E s \in Sessions, h \in Sessions :
        /\ h # s
        /\ Len(messages) >= 2
        /\ messages[1].sess = s /\ messages[2].sess = s
        /\ \E i, j \in 1..Len(wire[h]) : wire[h][i].mid = 1 /\ wire[h][j].mid = 2
        /\ \E i, j \in 1..Len(wire[s]) : wire[s][i].mid = 1 /\ wire[s][j].mid = 2

\* C11 (as claimed): the sender echo is unconditional.  A frame whose
\* message was stored, and whose handling is over, has been echoed on the
\* sender's own handle, also when the send on the recipient's handle (another
\* connection) failed.
SenderEchoUnconditional ==
    \A s \in Sessions :
        LET c == cur[s] IN
        (/\ c.mid # None
         /\ c.target # s
         /\ c.stage \in {"done", "failed"}
         /\ c.stage = "failed" => ~c.forwarded)
        => (c.echoed /\ OnWire(s, c.payload, c.mid))

\* C12 (as claimed): fault isolation.  A session whose forward failed on the
\* dead handle of another connection stays in its loop and stays registered
\* if it was.
FaultIsolation ==
    \A s \in Sessions :
        LET c == cur[s] IN
        (/\ c.mid # None
         /\ c.target \notin {None, s}
         /\ c.stage = "failed"
         /\ ~c.forwarded)
        => (pc[s] \in ActivePcs /\ ~tornDown[s])

\* The store call for the frame session s handled last failed.
StoreFailed(s) == cur[s].stage = "failed" /\ cur[s].mid = None

\* C13: persistence failure.  When the store call for a frame fails (the
\* insert of the conversation or of the message), no outbound frame is sent
\* for it, neither a forward nor an echo: every frame on a handle is the
\* frame of a stored message.
PersistenceFailureSilent ==
    \A s \in Sessions :
        StoreFailed(s) =>
            /\ ~cur[s].forwarded
            /\ ~cur[s].echoed
            /\ \A h \in Sessions : \A i \in 1..Len(wire[h]) :
                  wire[h][i].payload.sender_id = user_id[s]
                      => wire[h][i].mid \in 1..Len(messages)

\* C13 witness: the insert of the message failed after the conversation was
\* committed, for a frame whose recipient is registered.
PersistenceFailureWitness ==
    \E s \in Sessions :
        /\ StoreFailed(s)
        /\ cur[s].created # None
        /\ cur[s].frame.to # None
        /\ active_connections[cur[s].frame.to] \notin {None, s}

\* The session's handler is over, and what ended it was neither a failed
\* store call nor a failed send on another connection's handle: its own
\* connection closed or broke.
EndedByOwnTransport(s) ==
    /\ user_id[s] # None
    /\ pc[s] \notin ActivePcs
    /\ ~StoreFailed(s)
    /\ ~(cur[s].stage = "failed" /\ ~cur[s].forwarded)

\* C14 (as claimed): teardown.  A session that reached Active and whose own
\* connection closed or broke ends Closed, having run the unregister step.
TeardownOnClose ==
    \A s \in Sessions :
        EndedByOwnTransport(s) => (pc[s] = "closed" /\ tornDown[s])

\* The sessions awaiting a send_text on handle h: a forward to h (line 191)
\* or h's own echo (line 194).
SendsInProgress(h) ==
    {s \in Sessions :
        \/ pc[s] = "forwarding" /\ cur[s].target = h
        \/ pc[s] = "echoing" /\ s = h}

\* C15 (as claimed): per-handle write serialization.  At any moment at most
\* one send is in progress on a handle.
PerHandleSerialization ==
    \A h \in Sessions : Cardinality(SendsInProgress(h)) <= 1

\* An earlier connection of an identity that has registered again since.
Superseded(s) == user_id[s] # None /\ lastReg[user_id[s]] # s

\* C16: silent supersede.  A registration for an identity that has an entry
\* replaces that entry and nothing else: the earlier connection is not
\* closed and its session stays where it was.  A superseded session still
\* handles its frames: a well-formed one is stored, sent on the recipient's
\* handle when there is one, and echoed on the superseded session's own
\* handle.
SilentSupersede ==
    [][/\ \A s \in Sessions :
            (/\ pc[s] = "new"
             /\ pc'[s] = "receiving"
             /\ active_connections[user_id'[s]] # None)
            => LET old == active_connections[user_id'[s]] IN
               /\ active_connections' =
                     [active_connections EXCEPT ![user_id'[s]] = s]
               /\ pc'[old] = pc[old]
               /\ open'[old] = open[old]
               /\ closeCode'[old] = closeCode[old]
               /\ wire' = wire
       /\ \A s \in Sessions :
            (/\ Superseded(s)
             /\ pc[s] = "receiving"
             /\ nrecv'[s] = nrecv[s] + 1
             /\ WellFormed(cur'[s].frame))
            => LET c == cur'[s]
                   out == [payload |-> c.payload, mid |-> c.mid]
               IN
               /\ messages' = Append(messages, messages'[Len(messages')])
               /\ c.mid = Len(messages')
               /\ messages'[c.mid].sender_id = user_id[s]
               /\ c.target = active_connections[c.frame.to]
               /\ (c.target # None /\ open[c.target]) =>
                      /\ pc'[s] = "forwarding"
                      /\ wire' = [wire EXCEPT ![c.target] = Append(@, out)]
               /\ c.target = None =>
                      /\ pc'[s] = "echoing"
                      /\ wire' = [wire EXCEPT ![s] = Append(@, out)]
       /\ \A s \in Sessions :
            (Superseded(s) /\ pc[s] = "forwarding" /\ open[s] /\ pc'[s] # pc[s])
            => /\ pc'[s] = "echoing"
               /\ wire' = [wire EXCEPT ![s] =
                              Append(@, [payload |-> cur[s].payload,
                                         mid |-> cur[s].mid])]
      ]_vars

\* C16 witness: a superseded session, still open and in its loop, has handled
\* a frame addressed to its own identity: the frame was forwarded on the
\* newer handle and echoed on the superseded one.
SilentSupersedeWitness ==
    \E s \in Sessions :
        /\ Superseded(s)
        /\ pc[s] \in ActivePcs
        /\ open[s]
        /\ cur[s].stage = "done"
        /\ cur[s].frame.to = user_id[s]
        /\ cur[s].expect \notin {None, s}
        /\ cur[s].target = cur[s].expect
        /\ OnWire(cur[s].target, cur[s].payload, cur[s].mid)
        /\ OnWire(s, cur[s].payload, cur[s].mid)

\* The messages stored for frames received on connection s.
StoredBy(s) == {i \in 1..Len(messages) : messages[i].sess = s}

\* C17: persist before send.  Every frame on a handle is the outbound frame
\* of a message that is in the store, and the frames a session has received
\* have each committed exactly one message, but for the one whose store call
\* failed.
PersistBeforeSend ==
    /\ \A h \in Sessions : \A i \in 1..Len(wire[h]) :
          LET e == wire[h][i] IN
          /\ e.mid \in 1..Len(messages)
          /\ e.payload =
               [conversation_id |-> messages[e.mid].conversation_id,
                sender_id |-> messages[e.mid].sender_id,
                content |-> messages[e.mid].content,
                timestamp |-> Str(messages[e.mid].timestamp)]
    /\ \A s \in Sessions :
          /\ Cardinality(StoredBy(s))
               = nrecv[s] - (IF StoreFailed(s) THEN 1 ELSE 0)
          /\ \A i, j \in StoredBy(s) :
               i # j => messages[i].seq # messages[j].seq

\* C17 witness: two messages are stored, one of them forwarded on another
\* connection's handle, and a session's store call has failed.
PersistBeforeSendWitness ==
    /\ Len(messages) = 2
    /\ \E h \in Sessions :
          /\ Len(wire[h]) > 0
          /\ messages[wire[h][1].mid].sess # h
    /\ \E s \in Sessions : StoreFailed(s) /\ nrecv[s] > 1

\* C18: sender binding.  The sender_id of every stored message, and of every
\* frame on a handle, is the identity the token of the receiving connection
\* decoded to, whatever the inbound frame carried.
SenderBinding ==
    /\ \A s \in Sessions :
          user_id[s] # None =>
              (token[s].kind = "payload" /\ user_id[s] = token[s].sub)
    /\ \A i \in 1..Len(messages) :
          /\ user_id[messages[i].sess] # None
          /\ messages[i].sender_id = user_id[messages[i].sess]
    /\ \A h \in Sessions : \A i \in 1..Len(wire[h]) :
          wire[h][i].mid \in 1..Len(messages)
              => wire[h][i].payload.sender_id
                    = token[messages[wire[h][i].mid].sess].sub

\* C18 witness: a frame of one user has been stored, forwarded on the handle
\* of another user and echoed, the sender_id being the sending session's and
\* not the recipient's.
SenderBindingWitness ==
    \E s \in Sessions :
        /\ cur[s].stage = "done"
        /\ cur[s].forwarded
        /\ cur[s].target # None
        /\ user_id[cur[s].target] # user_id[s]
        /\ messages[cur[s].mid].sender_id = token[s].sub
        /\ OnWire(cur[s].target, cur[s].payload, cur[s].mid)
        /\ cur[s].payload.sender_id = token[s].sub

\* C19 (as claimed): conversation membership.  A message stored for a frame
\* that named a conversation of the store has its sender among that
\* conversation's two participants.
ConversationMembership ==
    \A s \in Sessions :
        LET c == cur[s] IN
        (c.mid # None /\ c.known) =>
            /\ messages[c.mid].conversation_id = c.frame.conversation_id
            /\ messages[c.mid].sender_id
                 \in {convs[c.frame.conversation_id].user_a,
                      convs[c.frame.conversation_id].user_b}
====
